---- MODULE Spec2Model ----
(***************************************************************************)
(* Model of edraw.py, the Inkscape extension that converts the layers of   *)
(* an SVG drawing into an .ely layout document.                            *)
(*                                                                         *)
(* Numbers.  Input coordinates are integers.  A sampled Bezier point is    *)
(* the exact rational num/den; the two number formats of the code,         *)
(* '{:f}' and '{:.3f}', are modelled by Fmt, which rounds to 6 or 3        *)
(* decimals and yields the integer count of 10^-6 or 10^-3 units.          *)
(* An alpha value x/255 is carried as the integer x.                       *)
(***************************************************************************)
EXTENDS Integers, Sequences, FiniteSets, TLC

(***************************************************************************)
(* Bounds of the model.                                                    *)
(***************************************************************************)
MaxLayers == 2
MaxShapes == 2
MaxCmds == 3
MaxN == 2
MaxProps == 2

(***************************************************************************)
(* Generic helpers.                                                        *)
(***************************************************************************)
Range(s) == {s[k] : k \in 1..Len(s)}

SeqsUpTo(S, n) == UNION {[1..m -> S] : m \in 0..n}

Max(a, b) == IF a >= b THEN a ELSE b

RECURSIVE Pow(_, _)
Pow(b, e) == IF e = 0 THEN 1 ELSE b * Pow(b, e - 1)

RECURSIVE Flatten(_)
Flatten(ss) == IF ss = <<>> THEN <<>> ELSE Head(ss) \o Flatten(Tail(ss))

(* value of the local name that no statement has bound yet *)
Unbound == "<unbound>"

(***************************************************************************)
(* Number formatting: '{:f}'.format(v) (6 decimals) and '{:.3f}'.format(v) *)
(* (3 decimals) of v = num/den, den > 0, rounded half to even.             *)
(***************************************************************************)
RoundDiv(a, b) ==
    LET q == a \div b
        r == a % b
    IN  IF 2 * r < b THEN q
        ELSE IF 2 * r > b THEN q + 1
        ELSE IF q % 2 = 0 THEN q ELSE q + 1

Fmt(num, den, decimals) == RoundDiv(num * Pow(10, decimals), den)

(* a point num/den (componentwise) as written into newp and into points2 *)
FmtF(p) == [x |-> Fmt(p.x, p.den, 6), y |-> Fmt(p.y, p.den, 6)]
Fmt3(p) == [x |-> Fmt(p.x, p.den, 3), y |-> Fmt(p.y, p.den, 3)]

(* a complex number with integer parts, as a point over denominator 1 *)
Pt(c) == [x |-> c[1], y |-> c[2], den |-> 1]

(***************************************************************************)
(* color_string2color_list, rgba_conv, get_layer_attribs.                  *)
(* A color '#RRGGBBAA' is [rgb |-> "#RRGGBB", aa |-> value of AA].         *)
(* A color string is the sequence of its tokens: a token is a '#' literal  *)
(* of 6 or 8 hex digits ([hex |-> 6 | 8, rgb, aa]) or other text           *)
(* ([hex |-> 0, ...]).                                                     *)
(***************************************************************************)
HexDigits == <<"0", "1", "2", "3", "4", "5", "6", "7",
               "8", "9", "a", "b", "c", "d", "e", "f">>

(* '{:02x}'.format(v) *)
Hex2(v) == HexDigits[(v \div 16) + 1] \o HexDigits[(v % 16) + 1]

(* str.upper() on the color literals of the model *)
Upper(s) == CASE s = "#aabbcc" -> "#AABBCC"
              [] s = "#1f77b4" -> "#1F77B4"
              [] OTHER -> s

(* a list that falls back to one color when the string holds none *)
color_string2color_list_Fallback(color_string) ==
    LET found == SelectSeq(color_string, LAMBDA t : t.hex \in {6, 8})
    IN  IF found = <<>> THEN <<[rgb |-> "#000000", aa |-> 255]>>
        ELSE [k \in 1..Len(found) |->
                [rgb |-> Upper(found[k].rgb),
                 aa  |-> IF found[k].hex = 6 THEN 255 ELSE found[k].aa]]

color_string2color_list(color_string) ==
    LET found == SelectSeq(color_string, LAMBDA t : t.hex \in {6, 8})
    IN  [k \in 1..Len(found) |->
            [rgb |-> Upper(found[k].rgb),
             aa  |-> IF found[k].hex = 6 THEN 255 ELSE found[k].aa]]

(* color is <<r, g, b>> or <<r, g, b, a>>, a given in hundredths *)
rgba_conv(color) ==
    [rgb |-> "#" \o Hex2(color[1]) \o Hex2(color[2]) \o Hex2(color[3]),
     aa  |-> IF Len(color) = 3 THEN 255 ELSE color[4]]

DefaultCycle ==
    << [rgb |-> "#1F77B4", aa |-> 127], [rgb |-> "#FF7F0E", aa |-> 127],
       [rgb |-> "#2CA02C", aa |-> 127], [rgb |-> "#D62728", aa |-> 127],
       [rgb |-> "#9467BD", aa |-> 127], [rgb |-> "#8C564B", aa |-> 127],
       [rgb |-> "#E377C2", aa |-> 127], [rgb |-> "#7F7F7F", aa |-> 127],
       [rgb |-> "#BCBD22", aa |-> 127], [rgb |-> "#17BECF", aa |-> 127] >>

(* lines 460-468: the color cycle the options select *)
ColorCycle(opt) ==
    CASE opt.color_cycle = "default" -> DefaultCycle
      [] opt.color_cycle = "string"  -> color_string2color_list(opt.color_string)
      [] opt.color_cycle = "custom"  ->
            [k \in 1..Len(opt.cols) |-> rgba_conv(opt.cols[k])]

(* str(alpha) of alpha = aa/255 *)
AlphaStr(aa) == ToString(aa) \o "/255"

(* [name, hidden, locked, colorRGB, alpha] *)
get_layer_attribs(svg_layer, color) ==
    [name     |-> svg_layer.label,
     hidden   |-> IF svg_layer.style = "display:inline" THEN "true" ELSE "false",
     locked   |-> svg_layer.insensitive,
     colorRGB |-> color.rgb,
     alpha    |-> color.aa]

(***************************************************************************)
(* gen_style.  A style string is the sequence of its tokens: property      *)
(* names, ":", values and ";".                                             *)
(***************************************************************************)
NoMatch == <<"<no match>">>

(* re.search('fill:(.+?);', sty).group(1): the first "fill" ":" that is    *)
(* followed by at least one token and then a ";"; the group is the         *)
(* shortest such run of tokens.  NoMatch when the search finds nothing.    *)
SearchFill(sty) ==
    LET starts == {k \in 1..Len(sty) :
                      /\ k + 3 <= Len(sty)
                      /\ sty[k] = "fill" /\ sty[k + 1] = ":"
                      /\ \E j \in (k + 3)..Len(sty) : sty[j] = ";"}
    IN  IF starts = {} THEN NoMatch
        ELSE LET k == CHOOSE s \in starts : \A s2 \in starts : s <= s2
                 j == CHOOSE e \in (k + 3)..Len(sty) :
                         /\ sty[e] = ";"
                         /\ \A e2 \in (k + 3)..(e - 1) : sty[e2] /= ";"
             IN  SubSeq(sty, k + 2, j - 1)

FilledStyle(layer_color, layer_alpha) ==
    <<"fill", ":", layer_color, ";", "stroke", ":", "none", ";",
      "opacity", ":", AlphaStr(layer_alpha)>>

OutlineStyle(layer_color, layer_alpha) ==
    <<"fill", ":", "none", ";", "stroke", ":", layer_color, ";",
      "stroke-width", ":", "1", ";", "opacity", ":", AlphaStr(layer_alpha)>>

(* [ok, new_sty, outl]; ok = FALSE is the AttributeError of .group on None *)
gen_style(old_sty, layer_color, layer_alpha) ==
    LET sty_fill == SearchFill(old_sty)
    IN  IF sty_fill = NoMatch
        THEN [ok |-> FALSE, new_sty |-> <<>>, outl |-> "false"]
        ELSE IF sty_fill /= <<"none">>
        THEN [ok |-> TRUE, new_sty |-> FilledStyle(layer_color, layer_alpha),
              outl |-> "false"]
        ELSE [ok |-> TRUE, new_sty |-> OutlineStyle(layer_color, layer_alpha),
              outl |-> "true"]

(***************************************************************************)
(* area_fast_rect, area_fast_path.                                         *)
(***************************************************************************)
area_fast_rect(x, y) == IF x >= y THEN "0 deg" ELSE "90 deg"

(* '{:.0f} deg'.format(np.rad2deg(np.arctan(dy/dx))), dx /= 0: the exact   *)
(* value where it is an integer, the expression itself elsewhere           *)
AtanDeg(dy, dx) ==
    CASE dy = 0 /\ dx > 0 -> "0 deg"
      [] dy = 0 /\ dx < 0 -> "-0 deg"
      [] dy = dx          -> "45 deg"
      [] dy = -dx         -> "-45 deg"
      [] OTHER -> "round(atan(" \o ToString(dy) \o "/" \o ToString(dx) \o ")) deg"

WarnFewPoints ==
    "Path consists of less than 2 points. The angle can not be calculated and is set to 0 deg."

(* the direction with the two axes taken for each other *)
area_fast_path_SwappedAxes(points) ==
    IF Len(points) < 4
    THEN [a |-> "0 deg", msgs |-> <<WarnFewPoints>>]
    ELSE IF points[4] - points[2] /= 0
    THEN [a |-> AtanDeg(points[3] - points[1], points[4] - points[2]),
          msgs |-> <<>>]
    ELSE [a |-> "90 deg", msgs |-> <<>>]

(* [a, msgs]: the direction and the messages given to inkex.errormsg *)
area_fast_path(points) ==
    IF Len(points) < 4
    THEN [a |-> "0 deg", msgs |-> <<WarnFewPoints>>]
    ELSE IF points[3] - points[1] /= 0
    THEN [a |-> AtanDeg(points[4] - points[2], points[3] - points[1]),
          msgs |-> <<>>]
    ELSE [a |-> "90 deg", msgs |-> <<>>]

(***************************************************************************)
(* cubic_bezier, quadratic_bezier, interpolate_curved_path.                *)
(* Control points are complex numbers <<re, im>> with integer parts; the   *)
(* value at t = k/n is returned over the denominator n^3 (n^2).            *)
(***************************************************************************)
cubic_bezier(b, k, n) ==
    LET c(m) == (-b[1][m] + 3 * b[2][m] - 3 * b[3][m] + b[4][m]) * k * k * k
                + (3 * b[1][m] - 6 * b[2][m] + 3 * b[3][m]) * k * k * n
                + (-3 * b[1][m] + 3 * b[2][m]) * k * n * n
                + b[1][m] * n * n * n
    IN  [x |-> c(1), y |-> c(2), den |-> n * n * n]

quadratic_bezier(b, k, n) ==
    LET c(m) == (b[1][m] - 2 * b[2][m] + b[3][m]) * k * k
                + (-2 * b[1][m] + 2 * b[2][m]) * k * n
                + b[1][m] * n * n
    IN  [x |-> c(1), y |-> c(2), den |-> n * n]

(* a sampling that starts at t = 0: t = 0/n, 1/n, ..., n/n *)
Samples_FromZero(n) == [k \in 1..(n + 1) |-> k - 1]

(* samples = np.linspace(1/n, 1, n): t = 1/n, 2/n, ..., n/n *)
Samples(n) == [k \in 1..n |-> k]

interpolate_curved_path(path, n) ==
    LET samples == Samples(n)
    IN  [s \in 1..Len(samples) |->
            IF path[1] = "C" THEN cubic_bezier(path[2], samples[s], n)
                             ELSE quadratic_bezier(path[2], samples[s], n)]

(***************************************************************************)
(* The path interpreter: one pass of the loop body of lines 513-576.       *)
(* A segment is [l |-> letter, a |-> arguments], as svg_path.path          *)
(* .to_arrays() gives it.  st is [PP, CC, newp, points2, closed].          *)
(* newp is the sequence of its commands [op, x, y] ('{:f}' numbers),       *)
(* points2 the sequence of its groups [sep, x, y] ('{:.3f}' numbers).      *)
(***************************************************************************)
NewpTok(op, P) == [op |-> op, x |-> FmtF(P).x, y |-> FmtF(P).y]

Points2Tok(sep, P) == [sep |-> sep, x |-> Fmt3(P).x, y |-> Fmt3(P).y]

(* one vertex: PP is set and written to both strings *)
EmitVertex(st, P, op, sep) ==
    [st EXCEPT !.PP = P,
               !.newp = Append(@, NewpTok(op, Pt(P))),
               !.points2 = Append(@, Points2Tok(sep, Pt(P)))]

(* one curved segment: its interpolated points are written to both strings *)
EmitCurve(st, ipoints, CC, PP) ==
    [st EXCEPT !.CC = CC,
               !.PP = PP,
               !.newp = @ \o [k \in 1..Len(ipoints) |-> NewpTok("L", ipoints[k])],
               !.points2 = @ \o [k \in 1..Len(ipoints) |->
                                    Points2Tok(" ", ipoints[k])]]

(* line 542 and line 561: the reflected control point *)
Reflect(PP, CC) == <<2 * PP[1] - CC[1], 2 * PP[2] - CC[2]>>

InterpretSeg(st, seg, n) ==
    LET a == seg.a
    IN  CASE seg.l = "M" -> EmitVertex(st, <<a[1], a[2]>>, "M", "")
          [] seg.l = "L" -> EmitVertex(st, <<a[1], a[2]>>, "L", " ")
          [] seg.l = "H" -> EmitVertex(st, <<a[1], st.PP[2]>>, "L", " ")
          [] seg.l = "V" -> EmitVertex(st, <<st.PP[1], a[1]>>, "L", " ")
          [] seg.l = "C" ->
                LET seg_s  == st.PP
                    seg_c1 == <<a[1], a[2]>>
                    seg_c2 == <<a[3], a[4]>>
                    seg_e  == <<a[5], a[6]>>
                IN  EmitCurve(st,
                        interpolate_curved_path(
                            <<"C", <<seg_s, seg_c1, seg_c2, seg_e>> >>, n),
                        seg_c2, seg_e)
          [] seg.l = "S" ->
                LET seg_s  == st.PP
                    seg_c1 == Reflect(st.PP, st.CC)
                    seg_c2 == <<a[1], a[2]>>
                    seg_e  == <<a[3], a[4]>>
                IN  EmitCurve(st,
                        interpolate_curved_path(
                            <<"C", <<seg_s, seg_c1, seg_c2, seg_e>> >>, n),
                        seg_c2, seg_e)
          [] seg.l = "Q" ->
                LET seg_s == st.PP
                    seg_c == <<a[1], a[2]>>
                    seg_e == <<a[3], a[4]>>
                IN  EmitCurve(st,
                        interpolate_curved_path(
                            <<"Q", <<seg_s, seg_c, seg_e>> >>, n),
                        seg_c, seg_e)
          [] seg.l = "T" ->
                LET seg_s == st.PP
                    seg_c == Reflect(st.PP, st.CC)
                    seg_e == <<a[1], a[2]>>
                IN  EmitCurve(st,
                        interpolate_curved_path(
                            <<"Q", <<seg_s, seg_c, seg_e>> >>, n),
                        seg_c, seg_e)
          [] seg.l = "A" -> EmitVertex(st, <<a[6], a[7]>>, "L", " ")
          [] seg.l = "Z" ->
                [st EXCEPT !.newp = Append(@, [op |-> "Z", x |-> 0, y |-> 0]),
                           !.closed = "True"]
          [] OTHER -> st

(* line 578-579: the numbers of newp, in order *)
AnglePoints(newp) ==
    Flatten([k \in 1..Len(newp) |->
                IF newp[k].op = "Z" THEN <<>> ELSE <<newp[k].x, newp[k].y>>])

(***************************************************************************)
(* The output tree.                                                        *)
(***************************************************************************)
(* src is the id of the input shape an element was made from (0: none)    *)
ElFrom(tag, attrib, children, src) ==
    [tag |-> tag, attrib |-> attrib, children |-> children, src |-> src]

El(tag, attrib, children) == ElFrom(tag, attrib, children, 0)

Timestamp == "dd.mm.YYYY HH:MM:SS"

GridParams == <<"1", "1", "true", "true">>

create_ely_tree(filename, grid) ==
    LET version == El("VERSION", [created |-> Timestamp, modified |-> Timestamp,
                                  number |-> "1.0"], <<>>)
        instance_list == El("INSTANCE_LIST", [none |-> ""], <<>>)
        structure == El("STRUCTURE", [locked |-> "false", name |-> "Structure"],
                        <<version, instance_list>>)
    IN  El("ELAYOUT", [locked |-> "false", name |-> filename, version |-> "1.0"],
           << version,
              El("GRID", [horizontal |-> grid[1], show |-> grid[3],
                          snap_to |-> grid[4], vertical |-> grid[2]], <<>>),
              El("LAYER_LIST", [none |-> ""], <<>>),
              El("STRUCTURE_LIST", [none |-> ""], <<structure>>) >>)

(* ely_xml.xpath('//LAYER_LIST')[0] and ely_xml.xpath('//STRUCTURE')[0] *)
LayerListOf(tree) == tree.children[3]
StructureOf(tree) == tree.children[4].children[1]

(* etree.SubElement(ely_layer_list, ...) *)
AddToLayerList(tree, el) ==
    [tree EXCEPT !.children[3].children = Append(@, el)]

(* the element is put into the INSTANCE_LIST of the structure *)
AddToStructure_InstanceList(tree, el) ==
    [tree EXCEPT !.children[4].children[1].children[2].children = Append(@, el)]

(* etree.SubElement(ely_structure, ...) *)
AddToStructure(tree, el) ==
    [tree EXCEPT !.children[4].children[1].children = Append(@, el)]

(* etree.SubElement(ely_layer_reference, ...): ref is the position of the  *)
(* layer reference among the children of its parent                        *)
AddToLayerReference(tree, ref, el) ==
    [tree EXCEPT !.children[4].children[1].children[ref].children = Append(@, el)]

(***************************************************************************)
(* The input document.  svg.layers lists the labelled groups in document   *)
(* order (the result of //svg:g[@inkscape:label]); a layer holds its own   *)
(* shapes, in order, followed by the layers nested in it (parent = 0: not  *)
(* nested).                                                                *)
(***************************************************************************)
StyFilled == <<"fill", ":", "#ff0000", ";", "stroke", ":", "none", ";">>

StyOutline == <<"fill", ":", "none", ";", "stroke", ":", "#000000", ";",
                "stroke-width", ":", "2">>

Seg(l, a) == [l |-> l, a |-> a]

PathOpen == <<Seg("M", <<0, 0>>), Seg("L", <<10, 0>>)>>

PathClosed == <<Seg("M", <<0, 0>>), Seg("L", <<10, 0>>), Seg("L", <<10, 10>>),
                Seg("Z", <<>>)>>

Shape(tag, style, w, h, d) ==
    [tag |-> tag, style |-> style, x |-> 1, y |-> 2, w |-> w, h |-> h, d |-> d]

(* the shapes a document of Spec is made of *)
ShapeSamples ==
    { Shape("rect", StyFilled, 10, 5, <<>>),
      Shape("ellipse", StyOutline, 1, 2, <<>>),
      Shape("circle", StyFilled, 3, 3, <<>>),
      Shape("path", StyOutline, 0, 0, PathOpen),
      Shape("path", StyFilled, 0, 0, PathClosed) }

(* the segments a path of SpecPath is made of *)
SegSamples ==
    { Seg("M", <<1, 1>>),
      Seg("L", <<1, 1>>),
      Seg("H", <<2>>), Seg("V", <<3>>),
      Seg("C", <<0, 2, 2, 2, 2, 0>>), Seg("S", <<3, 1, 3, 3>>),
      Seg("Q", <<1, 2, 2, 0>>), Seg("T", <<4, 4>>),
      Seg("A", <<1, 1, 0, 0, 1, 3, 0>>),
      Seg("Z", <<>>), Seg("X", <<>>) }

(* the properties a style of SpecStyle is made of *)
PropSamples ==
    { <<"fill", ":", "none">>, <<"fill", ":", "#0000ff">>,
      <<"stroke", ":", "none">>, <<"fill-opacity", ":", "1">> }

(* the properties joined by ";", with or without a ";" at the end *)
RECURSIVE JoinProps(_)
JoinProps(props) ==
    IF props = <<>> THEN <<>>
    ELSE IF Len(props) = 1 THEN props[1]
    ELSE props[1] \o <<";">> \o JoinProps(Tail(props))

StyleOf(props, trailing) ==
    IF trailing /\ props /= <<>> THEN JoinProps(props) \o <<";">>
    ELSE JoinProps(props)

Layer(k, parent, shapes) ==
    [label |-> "Layer " \o ToString(k), style |-> "display:inline",
     insensitive |-> "false", parent |-> parent, shapes |-> shapes]

(* layer k and the layers it is nested in *)
RECURSIVE AncOrSelf(_, _)
AncOrSelf(parents, k) ==
    IF k = 0 THEN {} ELSE {k} \cup AncOrSelf(parents, parents[k])

(* parents[k] is the layer that layer k is nested in: document order makes *)
(* it the layer before k, or one that layer is nested in, or none          *)
ParentVectors(nl) ==
    {p \in [1..nl -> 0..nl] :
        \A k \in 1..nl : p[k] = 0 \/ (k > 1 /\ p[k] \in AncOrSelf(p, k - 1))}

(* shapes[k] belongs to layer own[k]; id is the shape's id attribute *)
OwnShapes(shapes, own, l) ==
    LET withId == [k \in 1..Len(shapes) |->
                      [id |-> k, own |-> own[k], s |-> shapes[k]]]
        mine == SelectSeq(withId, LAMBDA e : e.own = l)
    IN  [k \in 1..Len(mine) |->
            [id |-> mine[k].id, tag |-> mine[k].s.tag, style |-> mine[k].s.style,
             x |-> mine[k].s.x, y |-> mine[k].s.y, w |-> mine[k].s.w,
             h |-> mine[k].s.h, d |-> mine[k].s.d]]

Document(parents, shapes, own) ==
    [height |-> [val |-> 100, unit |-> "mm"],
     width  |-> [val |-> 200, unit |-> "mm"],
     layers |-> [l \in 1..Len(parents) |->
                    Layer(l, parents[l], OwnShapes(shapes, own, l))]]

(* the ways to give n shapes, in order, to nl layers *)
Owners(n, nl) ==
    {own \in [1..n -> 1..nl] : \A k \in 1..(n - 1) : own[k] <= own[k + 1]}

Documents(samples, maxLayers, maxShapes) ==
    UNION { UNION { { Document(p, sh, own) : own \in Owners(Len(sh), Len(p)) } :
                    sh \in SeqsUpTo(samples, maxShapes) } :
            p \in UNION {ParentVectors(nl) : nl \in 0..maxLayers} }

(* svg_layer.findall('.//svg:<tag>'): the shapes of that tag in layer l and *)
(* in the layers nested in it, in document order, each as <<layer, index>> *)
RECURSIVE Descendants(_, _)
Descendants(doc, l) ==
    [k \in 1..Len(doc.layers[l].shapes) |-> <<l, k>>]
    \o Flatten([c \in 1..Len(doc.layers) |->
                   IF doc.layers[c].parent = l THEN Descendants(doc, c) ELSE <<>>])

(* the shapes of that tag, last first *)
FindAll_Reversed(doc, l, tag) ==
    LET found == SelectSeq(Descendants(doc, l),
                           LAMBDA r : doc.layers[r[1]].shapes[r[2]].tag = tag)
    IN  [k \in 1..Len(found) |-> found[Len(found) + 1 - k]]

FindAll(doc, l, tag) ==
    SelectSeq(Descendants(doc, l),
              LAMBDA r : doc.layers[r[1]].shapes[r[2]].tag = tag)

ShapeAt(doc, r) == doc.layers[r[1]].shapes[r[2]]

(***************************************************************************)
(* Options (add_arguments).                                                *)
(***************************************************************************)
DefaultN == 10

CustomCols == << <<31, 119, 180, 100>>, <<255, 0, 0, 50>>, <<0, 255, 0>>,
                 <<0, 0, 255, 0>>, <<127, 127, 127, 100>> >>

Lit6(rgb) == [hex |-> 6, rgb |-> rgb, aa |-> 0]
Lit8(rgb, aa) == [hex |-> 8, rgb |-> rgb, aa |-> aa]
Text(t) == [hex |-> 0, rgb |-> t, aa |-> 0]

ColorStringSamples ==
    { <<Text("no color here")>>,
      <<Lit6("#1f77b4")>>,
      <<Lit6("#1F77B4"), Text(" and "), Lit8("#AABBCC", 17)>> }

DefaultColor == [color_cycle |-> "default", color_string |-> <<>>]

CustomColor == [color_cycle |-> "custom", color_string |-> <<>>]

ColorOptions ==
    {DefaultColor, CustomColor}
    \cup { [color_cycle |-> "string", color_string |-> cs] :
              cs \in ColorStringSamples }

Options(color, calc_rot, apply_on_svg, n) ==
    [color_cycle |-> color.color_cycle, color_string |-> color.color_string,
     cols |-> CustomCols, calc_rot |-> calc_rot, apply_on_svg |-> apply_on_svg,
     num_int_points |-> n, dir_file |-> "drawing.ely"]

(***************************************************************************)
(* State of one run of edraw.effect.                                       *)
(***************************************************************************)
VARIABLES
    svg,                 \* self.svg: the input document
    options,             \* self.options
    pc,                  \* "start", "layers", "shapes", "segs", "done", "error"
    err,                 \* the exception that ended the run, or "none"
    msgs,                \* the messages given to inkex.errormsg, in order
    file,                \* the document written to dir_file, or NoFile
    ely,                 \* ely_xml
    size, color_cycle, svg_layer_list,
    li,                  \* number of layers the enumerate has yielded
    i,                   \* the name i: bound by both for loops
    layer_color, svg_layer_attribs, ely_layer_reference,
    svg_rects, svg_ellipses, svg_circles, svg_paths,
    ri, ei, ci, pi,      \* shapes of each list that are done
    segs,
    si,                  \* segments of segs that are done
    st,                  \* PP, CC, newp, points2, closed
    a, ns, o

vars == <<svg, options, pc, err, msgs, file, ely, size, color_cycle,
          svg_layer_list, li, i, layer_color, svg_layer_attribs,
          ely_layer_reference, svg_rects, svg_ellipses, svg_circles, svg_paths,
          ri, ei, ci, pi, segs, si, st, a, ns, o>>

setupLocals == <<size, color_cycle, svg_layer_list>>

layerLocals == <<li, layer_color, svg_layer_attribs, ely_layer_reference,
                 svg_rects, svg_ellipses, svg_circles, svg_paths>>

shapeCounts == <<ri, ei, ci, pi>>

pathLocals == <<segs, si, st>>

NoFile == [tag |-> "<no file>", attrib |-> [none |-> ""], children |-> <<>>,
           src |-> 0]

NoColor == [rgb |-> Unbound, aa |-> 0]

NoAttribs == [name |-> Unbound, hidden |-> Unbound, locked |-> Unbound,
              colorRGB |-> Unbound, alpha |-> 0]

(* the state in which effect is entered *)
Entry(doc, opt) ==
    /\ svg = doc
    /\ options = opt
    /\ pc = "start"
    /\ err = "none"
    /\ msgs = <<>>
    /\ file = NoFile
    /\ ely = NoFile
    /\ size = 0
    /\ color_cycle = <<>>
    /\ svg_layer_list = <<>>
    /\ li = 0
    /\ i = 0
    /\ layer_color = NoColor
    /\ svg_layer_attribs = NoAttribs
    /\ ely_layer_reference = 0
    /\ svg_rects = <<>>
    /\ svg_ellipses = <<>>
    /\ svg_circles = <<>>
    /\ svg_paths = <<>>
    /\ ri = 0 /\ ei = 0 /\ ci = 0 /\ pi = 0
    /\ segs = <<>>
    /\ si = 0
    /\ st = [PP |-> <<0, 0>>, CC |-> <<0, 0>>, newp |-> <<>>, points2 |-> <<>>,
             closed |-> Unbound]
    /\ a = Unbound
    /\ ns = <<>>
    /\ o = Unbound

(* documents with layers, nested layers and shapes of every kind, under   *)
(* every color option                                                      *)
Init ==
    \E doc \in Documents(ShapeSamples, MaxLayers, MaxShapes),
       color \in ColorOptions :
        Entry(doc, Options(color, FALSE, FALSE, DefaultN))

(* a document of one layer that holds one shape *)
OneShape(sh) == Document(<<0>>, <<sh>>, <<1>>)

(* one path of any segments, under every sampling count, with and without *)
(* calc_rot                                                                *)
InitPath ==
    \E d \in SeqsUpTo(SegSamples, MaxCmds), n \in 1..MaxN, calc_rot \in BOOLEAN :
        Entry(OneShape(Shape("path", StyFilled, 0, 0, d)),
              Options(DefaultColor, calc_rot, FALSE, n))

(* one rect of any style *)
InitStyle ==
    \E props \in SeqsUpTo(PropSamples, MaxProps), trailing \in BOOLEAN,
       color \in {DefaultColor, CustomColor} :
        Entry(OneShape(Shape("rect", StyleOf(props, trailing), 10, 5, <<>>)),
              Options(color, FALSE, FALSE, DefaultN))

(* the run ends with exception e *)
Raise(e) == pc' = "error" /\ err' = e

(***************************************************************************)
(* lines 440-468: the options, the size, the empty tree, the layers and    *)
(* the color cycle.                                                        *)
(***************************************************************************)
get_size(doc) == Max(doc.height.val, doc.width.val)

(* path_leaf(ep_directory).split('.')[0] of the dir_file of the model *)
FileStem(dir_file) == IF dir_file = "drawing.ely" THEN "drawing" ELSE dir_file

Setup ==
    /\ pc = "start"
    /\ size' = get_size(svg)
    /\ svg' = IF options.apply_on_svg
              THEN [svg EXCEPT !.height = [val |-> size', unit |-> svg.height.unit],
                               !.width = [val |-> size', unit |-> svg.height.unit]]
              ELSE svg
    /\ ely' = create_ely_tree(FileStem(options.dir_file), GridParams)
    /\ svg_layer_list' = [k \in 1..Len(svg.layers) |-> k]
    /\ color_cycle' = ColorCycle(options)
    /\ pc' = "layers"
    /\ UNCHANGED <<options, err, msgs, file, layerLocals, shapeCounts,
                   pathLocals, i, a, ns, o>>

(***************************************************************************)
(* lines 470-479: the head of the loop over the layers.                    *)
(***************************************************************************)
LayerBodyDone ==
    /\ pc = "shapes"
    /\ ri = Len(svg_rects) /\ ei = Len(svg_ellipses)
    /\ ci = Len(svg_circles) /\ pi = Len(svg_paths)

AtLayerLoop == pc = "layers" \/ LayerBodyDone

(* the color of the next index *)
LayerColor_OffByOne(cycle, idx) == cycle[((idx + 1) % Len(cycle)) + 1]

(* line 471: color_cycle[i % len(color_cycle)] *)
LayerColor(cycle, idx) == cycle[(idx % Len(cycle)) + 1]

LayerElement(attribs) ==
    El("LAYER", [fill_color |-> attribs.colorRGB,
                 fill_opacity |-> AlphaStr(attribs.alpha),
                 hidden |-> attribs.hidden, locked |-> attribs.locked,
                 name |-> attribs.name], <<>>)

(* frame_cx and frame_cy are size/2., carried as the pair <<size, 2>> *)
LayerReferenceElement(attribs, sz) ==
    El("LAYER_REFERENCE", [frame_cx |-> <<sz, 2>>, frame_cy |-> <<sz, 2>>,
                           frame_size |-> sz, ref |-> attribs.name], <<>>)

NextLayer ==
    /\ AtLayerLoop
    /\ li < Len(svg_layer_list)
    /\ li' = li + 1
    /\ i' = li
    /\ IF Len(color_cycle) = 0
       THEN /\ Raise("ZeroDivisionError")
            /\ UNCHANGED <<ely, layer_color, svg_layer_attribs,
                           ely_layer_reference, svg_rects, svg_ellipses,
                           svg_circles, svg_paths, shapeCounts>>
       ELSE LET l == svg_layer_list[li + 1]
                color == LayerColor(color_cycle, i')
                attribs == get_layer_attribs(svg.layers[l], color)
                withLayer == AddToLayerList(ely, LayerElement(attribs))
            IN  /\ layer_color' = color
                /\ svg_layer_attribs' = attribs
                /\ ely' = AddToStructure(withLayer,
                                         LayerReferenceElement(attribs, size))
                /\ ely_layer_reference' = Len(StructureOf(ely).children) + 1
                /\ svg_rects' = FindAll(svg, l, "rect")
                /\ svg_ellipses' = FindAll(svg, l, "ellipse")
                /\ svg_circles' = FindAll(svg, l, "circle")
                /\ svg_paths' = FindAll(svg, l, "path")
                /\ ri' = 0 /\ ei' = 0 /\ ci' = 0 /\ pi' = 0
                /\ pc' = "shapes"
                /\ err' = err
    /\ UNCHANGED <<svg, options, msgs, file, setupLocals, pathLocals, a, ns, o>>

(***************************************************************************)
(* lines 480-502: one pass of the loops over the rects, the ellipses and   *)
(* the circles of the layer.                                               *)
(***************************************************************************)
(* an assignment that is lost *)
WithStyle_Dropped(doc, r, sty) == doc

(* svg_<shape>.attrib['style'] = ns, when apply_on_svg *)
WithStyle(doc, r, sty) == [doc EXCEPT !.layers[r[1]].shapes[r[2]].style = sty]

RectElement(sh, outl, area_fast) ==
    ElFrom("RECT", [outline |-> outl, area_fast |-> area_fast, height |-> sh.h,
                    width |-> sh.w, x |-> sh.x, y |-> sh.y], <<>>, sh.id)

EllipseElement(sh, outl, area_fast) ==
    ElFrom("ELLIPSE", [outline |-> outl, area_fast |-> area_fast, rx |-> sh.w,
                       ry |-> sh.h, cx |-> sh.x, cy |-> sh.y], <<>>, sh.id)

CircleElement(sh, outl, area_fast) ==
    ElFrom("CIRCLE", [outline |-> outl, area_fast |-> area_fast, cx |-> sh.x,
                      cy |-> sh.y, r |-> sh.w], <<>>, sh.id)

(* etree.SubElement(ely_layer_reference, 'RECT' | 'ELLIPSE' | 'CIRCLE', ...) *)
ShapeElement(tag, sh, outl, area_fast) ==
    CASE tag = "rect" -> RectElement(sh, outl, area_fast)
      [] tag = "ellipse" -> EllipseElement(sh, outl, area_fast)
      [] tag = "circle" -> CircleElement(sh, outl, area_fast)

(* the body shared by the three loops: r is the shape, tag its kind *)
PlainShape(r, area_fast, tag) ==
    LET sh == ShapeAt(svg, r)
        g == gen_style(sh.style, svg_layer_attribs.colorRGB,
                       svg_layer_attribs.alpha)
    IN  IF ~g.ok
        THEN /\ Raise("AttributeError")
             /\ UNCHANGED <<svg, ely, a, ns, o>>
        ELSE /\ ns' = g.new_sty
             /\ o' = g.outl
             /\ a' = area_fast
             /\ ely' = AddToLayerReference(ely, ely_layer_reference,
                                           ShapeElement(tag, sh, g.outl,
                                                        area_fast))
             /\ svg' = IF options.apply_on_svg THEN WithStyle(svg, r, g.new_sty)
                       ELSE svg
             /\ UNCHANGED <<pc, err>>

DoRect ==
    /\ pc = "shapes"
    /\ ri < Len(svg_rects)
    /\ LET r == svg_rects[ri + 1]
       IN  PlainShape(r, area_fast_rect(ShapeAt(svg, r).w, ShapeAt(svg, r).h),
                      "rect")
    /\ ri' = ri + 1
    /\ UNCHANGED <<options, msgs, file, setupLocals, layerLocals, ei, ci, pi,
                   pathLocals, i>>

DoEllipse ==
    /\ pc = "shapes"
    /\ ri = Len(svg_rects)
    /\ ei < Len(svg_ellipses)
    /\ LET r == svg_ellipses[ei + 1]
       IN  PlainShape(r, area_fast_rect(ShapeAt(svg, r).w, ShapeAt(svg, r).h),
                      "ellipse")
    /\ ei' = ei + 1
    /\ UNCHANGED <<options, msgs, file, setupLocals, layerLocals, ri, ci, pi,
                   pathLocals, i>>

DoCircle ==
    /\ pc = "shapes"
    /\ ri = Len(svg_rects) /\ ei = Len(svg_ellipses)
    /\ ci < Len(svg_circles)
    /\ PlainShape(svg_circles[ci + 1], "0 deg", "circle")
    /\ ci' = ci + 1
    /\ UNCHANGED <<options, msgs, file, setupLocals, layerLocals, ri, ei, pi,
                   pathLocals, i>>

(***************************************************************************)
(* lines 504-511: the head of the loop over the paths of the layer.        *)
(***************************************************************************)
BeginPath ==
    /\ pc = "shapes"
    /\ ri = Len(svg_rects) /\ ei = Len(svg_ellipses) /\ ci = Len(svg_circles)
    /\ pi < Len(svg_paths)
    /\ segs' = ShapeAt(svg, svg_paths[pi + 1]).d
    /\ si' = 0
    /\ st' = [st EXCEPT !.PP = <<0, 0>>, !.CC = <<0, 0>>, !.newp = <<>>,
                        !.points2 = <<>>]
    /\ pc' = "segs"
    /\ UNCHANGED <<svg, options, err, msgs, file, ely, setupLocals, layerLocals,
                   shapeCounts, i, a, ns, o>>

(***************************************************************************)
(* lines 513-576: one pass of the loop over the segments of the path.      *)
(***************************************************************************)
DoSeg ==
    /\ pc = "segs"
    /\ si < Len(segs)
    /\ i' = si
    /\ st' = InterpretSeg(st, segs[si + 1], options.num_int_points)
    /\ si' = si + 1
    /\ UNCHANGED <<svg, options, pc, err, msgs, file, ely, setupLocals,
                   layerLocals, shapeCounts, segs, a, ns, o>>

(***************************************************************************)
(* lines 578-593: the direction, the element and the write back of a path. *)
(***************************************************************************)
PolygonElement(sh, outl, area_fast, points2) ==
    ElFrom("POLYGON", [outline |-> outl, area_fast |-> area_fast,
                       points |-> points2], <<>>, sh.id)

LinesElement(sh, points2) ==
    ElFrom("LINES", [points |-> points2], <<>>, sh.id)

(* the segments of a path whose d attribute is newp; the vertices of the   *)
(* paths that are read again are whole numbers                             *)
ToArrays(newp) ==
    [k \in 1..Len(newp) |->
        IF newp[k].op = "Z" THEN Seg("Z", <<>>)
        ELSE Seg(newp[k].op, <<newp[k].x \div 1000000, newp[k].y \div 1000000>>)]

(* svg_path.attrib['style'] = ns; svg_path.attrib['d'] = newp *)
WithPath(doc, r, sty, newp) ==
    [doc EXCEPT !.layers[r[1]].shapes[r[2]].style = sty,
                !.layers[r[1]].shapes[r[2]].d = ToArrays(newp)]

(* line 581-584 *)
Direction(calc_rot, angle_points) ==
    IF calc_rot THEN area_fast_path(angle_points)
    ELSE [a |-> "0 deg", msgs |-> <<>>]

EndPath ==
    /\ pc = "segs"
    /\ si = Len(segs)
    /\ LET r == svg_paths[pi + 1]
           sh == ShapeAt(svg, r)
           dir == Direction(options.calc_rot, AnglePoints(st.newp))
           g == gen_style(sh.style, svg_layer_attribs.colorRGB,
                          svg_layer_attribs.alpha)
           lines_sty == OutlineStyle(svg_layer_attribs.colorRGB,
                                     svg_layer_attribs.alpha)
       IN  /\ a' = dir.a
           /\ msgs' = msgs \o dir.msgs
           /\ IF st.closed = Unbound
              THEN /\ Raise("UnboundLocalError")
                   /\ UNCHANGED <<svg, ely, ns, o, pi>>
              ELSE IF st.closed = "True" /\ ~g.ok
              THEN /\ Raise("AttributeError")
                   /\ UNCHANGED <<svg, ely, ns, o, pi>>
              ELSE /\ ns' = IF st.closed = "True" THEN g.new_sty ELSE lines_sty
                   /\ o' = IF st.closed = "True" THEN g.outl ELSE o
                   /\ ely' = AddToLayerReference(ely, ely_layer_reference,
                                IF st.closed = "True"
                                THEN PolygonElement(sh, g.outl, dir.a, st.points2)
                                ELSE LinesElement(sh, st.points2))
                   /\ svg' = IF options.apply_on_svg
                             THEN WithPath(svg, r, ns', st.newp)
                             ELSE svg
                   /\ pi' = pi + 1
                   /\ pc' = "shapes"
                   /\ err' = err
    /\ UNCHANGED <<options, file, setupLocals, layerLocals, ri, ei, ci,
                   pathLocals, i>>

(***************************************************************************)
(* line 596: the tree is written once the loop over the layers has ended.  *)
(***************************************************************************)
Write ==
    /\ AtLayerLoop
    /\ li = Len(svg_layer_list)
    /\ file' = ely
    /\ pc' = "done"
    /\ UNCHANGED <<svg, options, err, msgs, ely, setupLocals, layerLocals,
                   shapeCounts, pathLocals, i, a, ns, o>>

Next ==
    \/ Setup
    \/ NextLayer
    \/ DoRect
    \/ DoEllipse
    \/ DoCircle
    \/ BeginPath
    \/ DoSeg
    \/ EndPath
    \/ Write

Spec == Init /\ [][Next]_vars

NextPath ==
    \/ Setup
    \/ NextLayer
    \/ BeginPath
    \/ DoSeg
    \/ EndPath
    \/ Write

SpecPath == InitPath /\ [][NextPath]_vars

NextStyle ==
    \/ Setup
    \/ NextLayer
    \/ DoRect
    \/ Write

SpecStyle == InitStyle /\ [][NextStyle]_vars

(* documents with layers, nested layers and shapes of every kind, with and *)
(* without apply_on_svg                                                    *)
InitApply ==
    \E doc \in Documents(ShapeSamples, MaxLayers, MaxShapes),
       color \in {DefaultColor, CustomColor}, apply_on_svg \in BOOLEAN :
        Entry(doc, Options(color, FALSE, apply_on_svg, DefaultN))

SpecApply == InitApply /\ [][Next]_vars

(***************************************************************************)
(* Properties.                                                             *)
(***************************************************************************)
(* the layer references of a tree, in order, and the elements below them *)
LayerReferences(tree) ==
    SelectSeq(StructureOf(tree).children, LAMBDA e : e.tag = "LAYER_REFERENCE")

LayerElements(tree) == LayerListOf(tree).children

(* the input shape with the given id *)
ShapeById(doc, id) ==
    LET r == CHOOSE q \in {<<l, k>> : l \in 1..Len(doc.layers), k \in 1..MaxShapes + 1} :
                 /\ q[2] <= Len(doc.layers[q[1]].shapes)
                 /\ doc.layers[q[1]].shapes[q[2]].id = id
    IN  ShapeAt(doc, r)

HasClosePath(d) == \E k \in 1..Len(d) : d[k].l = "Z"

TreeBuilt == pc \notin {"start"}

(* C1: the closed flag of a path is true iff its own commands hold a       *)
(* ClosePath: when the last segment of a path is done the flag says so,    *)
(* every path is emitted as POLYGON if it holds a ClosePath and as LINES   *)
(* if not, and no path ends the run with an unbound flag.                  *)
C1_ClosedIffOwnClosePath ==
    /\ err /= "UnboundLocalError"
    /\ (pc = "segs" /\ si = Len(segs)) =>
            ((st.closed = "True") <=> HasClosePath(segs))
    /\ TreeBuilt =>
         \A r \in Range(LayerReferences(ely)) : \A e \in Range(r.children) :
            e.tag \in {"POLYGON", "LINES"} =>
               ((e.tag = "POLYGON") <=> HasClosePath(ShapeById(svg, e.src).d))

(* the vertices a segment contributes, by its kind, as the claim counts them *)
Contribution(seg, n) ==
    CASE seg.l \in {"M", "L", "H", "V", "A"} -> 1
      [] seg.l \in {"C", "S", "Q", "T"} -> n
      [] OTHER -> 0

RECURSIVE VertexCount(_, _)
VertexCount(d, n) ==
    IF d = <<>> THEN 0 ELSE Contribution(Head(d), n) + VertexCount(Tail(d), n)

(* the end point a segment names, as '{:.3f}' writes it; H and V name one  *)
(* coordinate only                                                         *)
EndsAt(seg, v) ==
    LET a3(k) == seg.a[k] * 1000
    IN  CASE seg.l \in {"M", "L", "T"} -> v.x = a3(1) /\ v.y = a3(2)
          [] seg.l \in {"S", "Q"} -> v.x = a3(3) /\ v.y = a3(4)
          [] seg.l = "C" -> v.x = a3(5) /\ v.y = a3(6)
          [] seg.l = "A" -> v.x = a3(6) /\ v.y = a3(7)
          [] seg.l = "H" -> v.x = a3(1)
          [] seg.l = "V" -> v.y = a3(1)
          [] OTHER -> TRUE

(* C2: after any number of segments of a path, points2 holds               *)
(* (#M + #L + #H + #V + #A) + n * (#C + #S + #Q + #T) vertices, and they   *)
(* are in command order: the vertices of segment j end where the count of  *)
(* the segments 1..j ends, and the last of them is the end point segment j *)
(* names; Z and other kinds add no vertex.                                 *)
C2_VertexCount ==
    LET n == options.num_int_points
    IN  /\ Len(st.points2) = VertexCount(SubSeq(segs, 1, si), n)
        /\ \A j \in 1..si :
              Contribution(segs[j], n) > 0 =>
                 EndsAt(segs[j], st.points2[VertexCount(SubSeq(segs, 1, j), n)])

C2_Witness ==
    /\ pc = "segs" /\ si = Len(segs) /\ si = 3
    /\ options.num_int_points = 2
    /\ segs[1].l = "M" /\ segs[2].l \in {"C", "S", "Q", "T"}
    /\ segs[3].l \in {"Z", "X"}
    /\ Len(st.points2) = 3

(* the position of x in the sequence s of distinct elements (0: not there) *)
PosIn(s, x) == IF \E k \in 1..Len(s) : s[k] = x
               THEN CHOOSE k \in 1..Len(s) : s[k] = x ELSE 0

(* the ids of the shapes below layer l, in document order *)
DocOrderIds(doc, l) ==
    LET d == Descendants(doc, l)
    IN  [k \in 1..Len(d) |-> ShapeAt(doc, d[k]).id]

(* the layers are recorded in input order: the k-th LAYER and the k-th     *)
(* LAYER_REFERENCE name the k-th layer of the document                     *)
LayersInInputOrder ==
    /\ Len(LayerElements(ely)) <= Len(svg.layers)
    /\ Len(LayerReferences(ely)) = Len(LayerElements(ely))
    /\ \A k \in 1..Len(LayerElements(ely)) :
          /\ LayerElements(ely)[k].attrib.name = svg.layers[k].label
          /\ LayerReferences(ely)[k].attrib.ref = svg.layers[k].label

(* C3, as claimed: under each layer reference the records are in the       *)
(* relative order of their shapes in the input layer, whatever their       *)
(* kinds, and the layers are in input order.                               *)
C3_InputShapeOrder ==
    TreeBuilt =>
      /\ LayersInInputOrder
      /\ \A k \in 1..Len(LayerReferences(ely)) :
            LET recs == LayerReferences(ely)[k].children
                ids == DocOrderIds(svg, k)
            IN  \A p, q \in 1..Len(recs) :
                   p < q => PosIn(ids, recs[p].src) < PosIn(ids, recs[q].src)

KindRank(tag) ==
    CASE tag = "rect" -> 1 [] tag = "ellipse" -> 2 [] tag = "circle" -> 3
      [] tag = "path" -> 4

(* C3, amended: under each layer reference the records are grouped by the  *)
(* kind of their shape (rects, then ellipses, then circles, then paths),   *)
(* each group in the order of its shapes in the input layer, and the       *)
(* layers are in input order.                                              *)
C3_GroupedByKindInOrder ==
    TreeBuilt =>
      /\ LayersInInputOrder
      /\ \A k \in 1..Len(LayerReferences(ely)) :
            LET recs == LayerReferences(ely)[k].children
                ids == DocOrderIds(svg, k)
                rank(e) == KindRank(ShapeById(svg, e.src).tag)
            IN  /\ \A p \in 1..Len(recs) : PosIn(ids, recs[p].src) > 0
                /\ \A p, q \in 1..Len(recs) :
                      p < q =>
                        \/ rank(recs[p]) < rank(recs[q])
                        \/ /\ rank(recs[p]) = rank(recs[q])
                           /\ PosIn(ids, recs[p].src) < PosIn(ids, recs[q].src)

(* a layer whose first shape is recorded after its second, and a layer     *)
(* with two shapes of one kind                                             *)
C3_Witness ==
    /\ pc = "done"
    /\ \E k \in 1..Len(LayerReferences(file)) :
          LET recs == LayerReferences(file)[k].children
              ids == DocOrderIds(svg, k)
          IN  /\ Len(recs) = 2
              /\ PosIn(ids, recs[1].src) > PosIn(ids, recs[2].src)

(* the layer that holds the shape with the given id *)
OwnerOf(doc, id) ==
    CHOOSE l \in 1..Len(doc.layers) :
        \E k \in 1..Len(doc.layers[l].shapes) : doc.layers[l].shapes[k].id = id

RECURSIVE SumLen(_)
SumLen(ss) == IF ss = <<>> THEN 0 ELSE Len(Head(ss)) + SumLen(Tail(ss))

(* C4: every shape yields exactly one record, under the layer reference of *)
(* the layer that owns it: no record lies under another layer's reference, *)
(* and a finished run has as many records as the layers have shapes.       *)
C4_OneRecordPerShape ==
    TreeBuilt =>
      /\ \A k \in 1..Len(LayerReferences(ely)) :
            \A e \in Range(LayerReferences(ely)[k].children) :
               OwnerOf(svg, e.src) = k
      /\ pc = "done" =>
            SumLen([k \in 1..Len(LayerReferences(file)) |->
                       LayerReferences(file)[k].children])
            = SumLen([l \in 1..Len(svg.layers) |-> svg.layers[l].shapes])

(* the color that the claim gives to the layer of 0-based index idx *)
CycleColor(idx) ==
    LET cycle == ColorCycle(options)
    IN  cycle[(idx % Len(cycle)) + 1]

(* C5: the k-th layer record (index k - 1) carries cycle[(k - 1) mod L],   *)
(* and so does the style derived for every shape of that layer.            *)
C5_LayerColorByIndex ==
    TreeBuilt =>
      /\ \A k \in 1..Len(LayerElements(ely)) :
            /\ LayerElements(ely)[k].attrib.fill_color = CycleColor(k - 1).rgb
            /\ LayerElements(ely)[k].attrib.fill_opacity
                  = AlphaStr(CycleColor(k - 1).aa)
      /\ (pc \in {"shapes", "segs"} /\ ri + ei + ci + pi > 0) =>
            LET c == CycleColor(li - 1)
            IN  ns \in {FilledStyle(c.rgb, c.aa), OutlineStyle(c.rgb, c.aa)}

(* two layers under a cycle of one color (indices 0 and 0 + L), the first  *)
(* layer holding a path of several segments, the second a styled shape     *)
C5_Witness ==
    /\ pc = "shapes" /\ li = 2 /\ ri + ei + ci + pi > 0
    /\ Len(color_cycle) = 1
    /\ \E k \in 1..Len(svg.layers[1].shapes) :
          Len(svg.layers[1].shapes[k].d) > 1
    /\ LayerElements(ely)[1].attrib.fill_color
          = LayerElements(ely)[2].attrib.fill_color

NoColorLiteral(color_string) == \A k \in 1..Len(color_string) : color_string[k].hex = 0

EmptyCycleConfigured ==
    options.color_cycle = "string" /\ NoColorLiteral(options.color_string)

NoRecordEmitted ==
    TreeBuilt => LayerElements(ely) = <<>> /\ LayerReferences(ely) = <<>>

(* C6, as claimed: under a color source of zero colors the run ends in an  *)
(* error, emits no record and writes no document, for every number of      *)
(* layers.                                                                 *)
C6_EmptyCycleFailsFast ==
    EmptyCycleConfigured =>
      /\ pc /= "done"
      /\ file = NoFile
      /\ NoRecordEmitted

(* C6, amended: under a color source of zero colors and at least one layer *)
(* the run ends with a ZeroDivisionError at the first layer, emits no      *)
(* record and writes no document; with no layer it emits no record and     *)
(* ends without an error.                                                  *)
C6_EmptyCycleFailsAtFirstLayer ==
    EmptyCycleConfigured =>
      /\ NoRecordEmitted
      /\ Len(svg.layers) >= 1 =>
            /\ pc \in {"start", "layers", "error"}
            /\ pc = "error" => err = "ZeroDivisionError" /\ li = 1
            /\ file = NoFile
      /\ Len(svg.layers) = 0 =>
            /\ pc \in {"start", "layers", "done"}
            /\ err = "none"
            /\ pc = "done" => file = ely

C6_Witness ==
    /\ EmptyCycleConfigured
    /\ pc = "error" /\ err = "ZeroDivisionError"
    /\ Len(svg.layers) = 2

(* the style of the one rect of a document of SpecStyle *)
RectStyle == svg.layers[1].shapes[1].style

HasFill(sty) == \E k \in 1..(Len(sty) - 2) : sty[k] = "fill" /\ sty[k + 1] = ":"

(* the value of the first fill property of a style that has one *)
FillValue(sty) ==
    LET k == CHOOSE f \in 1..(Len(sty) - 2) :
                /\ sty[f] = "fill" /\ sty[f + 1] = ":"
                /\ \A g \in 1..(f - 1) : ~(sty[g] = "fill" /\ sty[g + 1] = ":")
    IN  sty[k + 2]

RectDone == pc = "error" \/ ri = 1

(* C7: for a style that holds a fill property, at any place, gen_style     *)
(* returns: with outline 'true' and the style fill:none;stroke:{color};    *)
(* stroke-width:1;opacity:{alpha} when the fill value is none, with        *)
(* outline 'false' and fill:{color};stroke:none;opacity:{alpha} otherwise. *)
C7_GenStyleByFill ==
    (RectDone /\ HasFill(RectStyle)) =>
      /\ err = "none"
      /\ LET c == svg_layer_attribs
         IN  IF FillValue(RectStyle) = "none"
             THEN o = "true" /\ ns = OutlineStyle(c.colorRGB, c.alpha)
             ELSE o = "false" /\ ns = FilledStyle(c.colorRGB, c.alpha)

(* C8, as claimed: in the written document every layer has one             *)
(* LAYER_REFERENCE, and each is a child of the INSTANCE_LIST of the        *)
(* STRUCTURE, not of the STRUCTURE itself.                                 *)
C8_ReferencesInInstanceList ==
    pc = "done" =>
      LET structure == StructureOf(file)
          instance_list == structure.children[2]
      IN  /\ instance_list.tag = "INSTANCE_LIST"
          /\ Len(instance_list.children) = Len(svg.layers)
          /\ \A k \in 1..Len(instance_list.children) :
                /\ instance_list.children[k].tag = "LAYER_REFERENCE"
                /\ instance_list.children[k].attrib.ref = svg.layers[k].label
          /\ \A e \in Range(structure.children) : e.tag /= "LAYER_REFERENCE"

(* C8, amended: in the written document every layer has one                *)
(* LAYER_REFERENCE, and each is a child of the STRUCTURE itself, after its *)
(* VERSION and its INSTANCE_LIST, which has no children.                   *)
C8_ReferencesInStructure ==
    pc = "done" =>
      LET structure == StructureOf(file)
          kids == structure.children
      IN  /\ structure.tag = "STRUCTURE"
          /\ Len(kids) = 2 + Len(svg.layers)
          /\ kids[1].tag = "VERSION"
          /\ kids[2].tag = "INSTANCE_LIST" /\ kids[2].children = <<>>
          /\ \A k \in 1..Len(svg.layers) :
                /\ kids[2 + k].tag = "LAYER_REFERENCE"
                /\ kids[2 + k].attrib.ref = svg.layers[k].label
          /\ \A e \in Range(file.children) : e.tag /= "LAYER_REFERENCE"

C8_Witness ==
    /\ pc = "done"
    /\ Len(svg.layers) = 2
    /\ Len(LayerReferences(file)) = 2

(* the cursor of the path interpreter as the claim describes it, after the *)
(* segments d of a path that starts with M: the current point, the last    *)
(* control point, and whether a curved segment has been interpreted        *)
CursorStep(c, seg) ==
    LET a1 == seg.a
        moved(P) == [PP |-> P, LCP |-> IF c.curved THEN c.LCP ELSE P,
                     curved |-> c.curved]
        curve(ctl, P) == [PP |-> P, LCP |-> ctl, curved |-> TRUE]
    IN  CASE seg.l \in {"M", "L"} -> moved(<<a1[1], a1[2]>>)
          [] seg.l = "H" -> moved(<<a1[1], c.PP[2]>>)
          [] seg.l = "V" -> moved(<<c.PP[1], a1[1]>>)
          [] seg.l = "A" -> moved(<<a1[6], a1[7]>>)
          [] seg.l = "C" -> curve(<<a1[3], a1[4]>>, <<a1[5], a1[6]>>)
          [] seg.l \in {"S", "Q"} -> curve(<<a1[1], a1[2]>>, <<a1[3], a1[4]>>)
          [] seg.l = "T" ->
                curve(<<2 * c.PP[1] - c.LCP[1], 2 * c.PP[2] - c.LCP[2]>>,
                      <<a1[1], a1[2]>>)
          [] OTHER -> c

RECURSIVE Cursor(_)
Cursor(d) ==
    IF d = <<>> THEN [PP |-> <<0, 0>>, LCP |-> <<0, 0>>, curved |-> FALSE]
    ELSE CursorStep(Cursor(SubSeq(d, 1, Len(d) - 1)), d[Len(d)])

(* C9: in a path that starts with M, the control point that is reflected   *)
(* for an S or a T is 2 * current_point - last_control_point, where the    *)
(* last control point is the one the most recent curved segment left (c2   *)
(* of a cubic, c of a quadratic) and is the current point while the path   *)
(* has had no curved segment.                                              *)
C9_ReflectedControlPoint ==
    (/\ pc = "segs" /\ si < Len(segs)
     /\ segs[1].l = "M"
     /\ segs[si + 1].l \in {"S", "T"}) =>
        LET c == Cursor(SubSeq(segs, 1, si))
        IN  Reflect(st.PP, st.CC)
               = <<2 * c.PP[1] - c.LCP[1], 2 * c.PP[2] - c.LCP[2]>>

(* the vertices of the flattened path, as newp holds them *)
Vertices(newp) == SelectSeq(newp, LAMBDA t : t.op /= "Z")

(* the direction of the one path of a document of SpecPath has been set *)
DirectionSet == a /= Unbound

StepShape ==
    IF ri' = ri + 1 THEN svg_rects[ri']
    ELSE IF ei' = ei + 1 THEN svg_ellipses[ei']
    ELSE IF ci' = ci + 1 THEN svg_circles[ci']
    ELSE IF pi' = pi + 1 THEN svg_paths[pi']
    ELSE <<0, 0>>

(* the two documents differ at most in the style and the d of shape r *)
SameExceptShape(before, after, r) ==
    /\ after.height = before.height
    /\ after.width = before.width
    /\ Len(after.layers) = Len(before.layers)
    /\ \A l \in 1..Len(before.layers) :
          LET x == before.layers[l]
              y == after.layers[l]
          IN  /\ [y EXCEPT !.shapes = <<>>] = [x EXCEPT !.shapes = <<>>]
              /\ Len(y.shapes) = Len(x.shapes)
              /\ \A k \in 1..Len(x.shapes) :
                    IF <<l, k>> = r
                    THEN [y.shapes[k] EXCEPT !.style = <<>>, !.d = <<>>]
                         = [x.shapes[k] EXCEPT !.style = <<>>, !.d = <<>>]
                    ELSE y.shapes[k] = x.shapes[k]

(* the style that goes with a record: the outline style for LINES and for  *)
(* outline = 'true', the filled style otherwise, in the color of the layer *)
DerivedStyle(rec) ==
    IF rec.tag = "LINES"
    THEN OutlineStyle(svg_layer_attribs.colorRGB, svg_layer_attribs.alpha)
    ELSE IF rec.attrib.outline = "true"
    THEN OutlineStyle(svg_layer_attribs.colorRGB, svg_layer_attribs.alpha)
    ELSE FilledStyle(svg_layer_attribs.colorRGB, svg_layer_attribs.alpha)

(* the write back of a step that has recorded shape r *)
WrittenBack(r) ==
    LET sh == ShapeAt(svg', r)
        recs == LayerReferences(ely')[li].children
        rec == recs[Len(recs)]
    IN  /\ SameExceptShape(svg, svg', r)
        /\ rec.src = sh.id
        /\ sh.style = DerivedStyle(rec)
        /\ IF sh.tag = "path"
           THEN /\ Len(sh.d) = Len(st.newp)
                /\ \A k \in 1..Len(sh.d) :
                      /\ sh.d[k].l = st.newp[k].op
                      /\ sh.d[k].l \in {"M", "L", "Z"}
                      /\ sh.d[k].l /= "Z" =>
                            /\ sh.d[k].a[1] * 1000000 = st.newp[k].x
                            /\ sh.d[k].a[2] * 1000000 = st.newp[k].y
           ELSE sh.d = ShapeAt(svg, r).d

(* C11: when apply_on_svg is disabled no step of the run changes the input *)
(* document: every shape's style, every path's d, the height and the width *)
(* stay as they are.  When it is enabled, a step that records a shape      *)
(* writes the derived style, and for a path the linearized d, onto that    *)
(* shape and changes nothing else; a step that records no shape leaves     *)
(* every layer and shape as it is.                                         *)
C11_WriteBackGatedByFlag ==
    [][ /\ ~options.apply_on_svg => svg' = svg
        /\ options.apply_on_svg =>
              IF StepShape = <<0, 0>> THEN svg'.layers = svg.layers
              ELSE WrittenBack(StepShape) ]_vars

(* a run without apply_on_svg that has recorded a filled rect and a closed *)
(* path of one layer and written the file: the document is as it was       *)
C11_Witness ==
    /\ ~options.apply_on_svg
    /\ pc = "done"
    /\ svg.height.val = 100 /\ svg.width.val = 200
    /\ Len(svg.layers) = 1
    /\ Len(svg.layers[1].shapes) = 2
    /\ svg.layers[1].shapes[1].tag = "path"
    /\ svg.layers[1].shapes[1].d = PathClosed
    /\ svg.layers[1].shapes[1].style = StyFilled
    /\ svg.layers[1].shapes[2].tag = "rect"
    /\ svg.layers[1].shapes[2].style = StyFilled
    /\ LET recs == LayerReferences(file)[1].children
       IN  /\ Len(recs) = 2
           /\ recs[1].tag = "RECT" /\ recs[2].tag = "POLYGON"

====
